---- MODULE Spec2Model ----
(***************************************************************************)
(* A model of the fsp-observer core: the ABI canonicalizer and signature   *)
(* deriver (configuration/types.py), the Contract model and the registry   *)
(* resolver (configuration/types.py), get_config (configuration/config.py) *)
(* and the typed event decoders with the protocol message reconstructor    *)
(* (observer/types.py).                                                    *)
(*                                                                         *)
(* Conventions.                                                            *)
(*  - A Python dict / JSON object is a TLA+ function whose DOMAIN is the   *)
(*    key set, so `"type" in entry` is  "type" \in DOMAIN entry.           *)
(*  - A Python str that the code builds or inspects character by character *)
(*    (hex strings, addresses) is a sequence of one-character strings; a   *)
(*    signature string is a sequence of the pieces the code appends.       *)
(*  - bytes are sequences of 0..255.                                       *)
(*  - keccak-256 cannot be computed here: a digest is the symbolic pair    *)
(*    <<"keccak256", preimage>>, so two digests are equal exactly when     *)
(*    their preimages are; its rendering as hex text is not modelled.      *)
(*  - A call that may raise returns [ok |-> TRUE, val |-> v] or            *)
(*    [ok |-> FALSE, err |-> "<exception type>"].                          *)
(***************************************************************************)
EXTENDS Integers, Sequences, FiniteSets, TLC

VARIABLES
    \* ---- ABI canonicalizer / signature deriver
    abiEntry,      \* the ABI entry handed to Event(...) / Function(...)
    abiOut,        \* the descriptor built from it, or NoValue
    \* ---- Contract model
    ctrFile,       \* the parsed artifact file handed to Contract(...)
    ctrOut,        \* outcome of Contract(name, address, file)
    \* ---- get_config / Contracts.get_contracts
    env,           \* os.environ
    net,           \* what the RPC endpoint answers
    pc,            \* position in get_config
    idx,           \* number of attr_names already resolved by the loop
    kwargs,        \* the local dict of get_contracts
    returned,      \* raw registry answers so far, in call order
    contracts,     \* value returned by get_contracts to its caller, or NoValue
    config,        \* value returned by get_config to its caller, or NoValue
    error,         \* exception that left get_config, or "none"
    \* ---- typed event decoder / protocol message reconstructor
    rawLog,        \* the raw log record handed to from_dict
    decoded,       \* the domain value from_dict returned, or NoValue
    decErr,        \* exception raised by from_dict / an accessor, or "none"
    derived        \* value of the last accessor / to_message call, or NoValue

abiVars == <<abiEntry, abiOut>>
ctrVars == <<ctrFile, ctrOut>>
cfgVars == <<env, net, pc, idx, kwargs, returned, contracts, config, error>>
decVars == <<rawLog, decoded, decErr, derived>>
vars == <<abiVars, ctrVars, cfgVars, decVars>>

NoValue == [kind |-> "none"]

Ok(v) == [ok |-> TRUE, val |-> v]
Raise(e) == [ok |-> FALSE, err |-> e]

Range(s) == {s[i] : i \in 1..Len(s)}

RECURSIVE SeqsOfLen(_, _)
SeqsOfLen(S, n) ==
    IF n = 0 THEN {<<>>}
    ELSE {Append(s, x) : s \in SeqsOfLen(S, n - 1), x \in S}

SeqsUpTo(S, n) == UNION {SeqsOfLen(S, k) : k \in 0..n}

NonEmptySeqsUpTo(S, n) == UNION {SeqsOfLen(S, k) : k \in 1..n}

(***************************************************************************)
(* Bounds of the model.                                                    *)
(***************************************************************************)
MaxInputs == 2        \* inputs of an ABI entry
MaxComponents == 2    \* components of a tuple parameter
MaxAbiLen == 3        \* entries of a contract ABI

(***************************************************************************)
(* Hex strings, bytes and addresses.                                       *)
(***************************************************************************)
HexDigits == <<"0", "1", "2", "3", "4", "5", "6", "7",
               "8", "9", "a", "b", "c", "d", "e", "f">>

UpperDigits == <<"0", "1", "2", "3", "4", "5", "6", "7",
                 "8", "9", "A", "B", "C", "D", "E", "F">>

IsHexChar(c) == c \in Range(HexDigits) \cup Range(UpperDigits)

\* int(c, 16) of one hex character
HexVal(c) == CHOOSE v \in 0..15 : HexDigits[v + 1] = c \/ UpperDigits[v + 1] = c

LowerChar(c) == IF IsHexChar(c) THEN HexDigits[HexVal(c) + 1] ELSE c

UpperChar(c) == IF IsHexChar(c) THEN UpperDigits[HexVal(c) + 1] ELSE c

LowerStr(s) == [i \in 1..Len(s) |-> LowerChar(s[i])]

\* bytes.hex(): two lowercase hex digits per byte, high nibble first
BytesHex(b) ==
    [i \in 1..(2 * Len(b)) |->
        LET byte == b[(i + 1) \div 2]
        IN  IF i % 2 = 1 THEN HexDigits[(byte \div 16) + 1]
                         ELSE HexDigits[(byte % 16) + 1]]

\* bytes.fromhex(s): whitespace is skipped before each pair of digits; a
\* non-hex character or a lone trailing digit raises ValueError.
RECURSIVE FromHexFrom(_, _)
FromHexFrom(s, i) ==
    IF i > Len(s) THEN Ok(<<>>)
    ELSE IF s[i] = " " THEN FromHexFrom(s, i + 1)
    ELSE IF i + 1 > Len(s) \/ ~IsHexChar(s[i]) \/ ~IsHexChar(s[i + 1])
         THEN Raise("ValueError")
    ELSE LET rest == FromHexFrom(s, i + 2)
         IN  IF rest.ok
             THEN Ok(<<16 * HexVal(s[i]) + HexVal(s[i + 1])>> \o rest.val)
             ELSE rest

BytesFromHex(s) == FromHexFrom(s, 1)

(***************************************************************************)
(* A Python int is unbounded: it is modelled as a sign and a magnitude in  *)
(* base 256, most significant digit first, without leading zeros, so that  *)
(* values at and beyond 2^32 are represented exactly.                      *)
(***************************************************************************)
RECURSIVE Digits(_)
Digits(n) == IF n = 0 THEN <<>> ELSE Digits(n \div 256) \o <<n % 256>>

PyInt(n) == [neg |-> n < 0, mag |-> Digits(IF n < 0 THEN -n ELSE n)]

\* 256^k as a Python int
PyPow256(k) == [neg |-> FALSE, mag |-> <<1>> \o [i \in 1..k |-> 0]]

\* 256^k - 1 as a Python int
PyMaxUnsigned(k) == [neg |-> FALSE, mag |-> [i \in 1..k |-> 255]]

\* 0 <= x < 256^length
FitsUnsigned(x, length) == ~x.neg /\ Len(x.mag) <= length

\* int.to_bytes(length, "big") (unsigned): OverflowError outside
\* 0 .. 256^length - 1, else the magnitude left-padded with zero bytes
IntToBytes(x, length) ==
    IF ~FitsUnsigned(x, length) THEN Raise("OverflowError")
    ELSE Ok([i \in 1..(length - Len(x.mag)) |-> 0] \o x.mag)

\* A bool is an int in Python: True.to_bytes(1, "big") = b"\x01".
BoolToInt(b) == IF b THEN PyInt(1) ELSE PyInt(0)

\* int(x) of a value that already is an int
int(x) == x

Slice(s, from, to) == SubSeq(s, from + 1, IF to > Len(s) THEN Len(s) ELSE to)

(***************************************************************************)
(* Addresses are the 40 hex characters after the "0x" prefix.              *)
(* to_checksum_address lower-cases the address, hashes it, and upper-cases *)
(* every letter whose hash nibble is >= 8.  The hash is keccak-256 in the  *)
(* library; here HashNibble is a fixed stand-in with the only properties   *)
(* the code relies on: it is a function of the lower-cased address alone.  *)
(***************************************************************************)
AddressHexLen == 40

IsHexAddress(a) == Len(a) = AddressHexLen /\ \A i \in 1..Len(a) : IsHexChar(a[i])

RECURSIVE DigitSum(_, _)
DigitSum(a, n) == IF n = 0 THEN 0 ELSE HexVal(a[n]) + DigitSum(a, n - 1)

\* nibble i of the stand-in hash whose digit sum is h
HashNibble(h, i) == (h + 5 * i) % 16

to_checksum_address(a) ==
    IF ~IsHexAddress(a) THEN Raise("ValueError")
    ELSE LET lower == LowerStr(a)
             h == DigitSum(lower, Len(lower))
         IN  Ok([i \in 1..Len(a) |->
                    IF HashNibble(h, i) >= 8 THEN UpperChar(lower[i])
                                             ELSE lower[i]])

ZeroAddress == [i \in 1..AddressHexLen |-> "0"]

SampleLower == [i \in 1..AddressHexLen |-> HexDigits[((7 * i) % 16) + 1]]

SampleUpper == [i \in 1..AddressHexLen |-> UpperChar(SampleLower[i])]

SampleChecksum == to_checksum_address(SampleLower).val

\* every third letter of the checksummed form with its case flipped
SampleMixed ==
    [i \in 1..AddressHexLen |->
        IF i % 3 # 0 THEN SampleChecksum[i]
        ELSE IF SampleChecksum[i] = SampleLower[i] THEN SampleUpper[i]
        ELSE SampleLower[i]]

SampleAddresses == {SampleLower, SampleUpper, SampleChecksum, SampleMixed}

(***************************************************************************)
(* ABI canonicalizer and signature deriver.                                *)
(* An ABI parameter is [type |-> t] or [type |-> t, components |-> cs].    *)
(***************************************************************************)
Keccak(text) == <<"keccak256", text>>

\* the inner loop of event_signature: the component types, verbatim,
\* comma separated
RECURSIVE ComponentTypes(_, _)
ComponentTypes(components, n) ==
    IF n = 0 THEN <<>>
    ELSE ComponentTypes(components, n - 1)
            \o (IF n - 1 > 0 THEN <<",">> ELSE <<>>)
            \o <<components[n].type>>

\* the outer loop of event_signature: `params` after the first n inputs
RECURSIVE EventParams(_, _)
EventParams(inputs, n) ==
    IF n = 0 THEN <<>>
    ELSE LET input == inputs[n]
         IN  EventParams(inputs, n - 1)
                \o (IF n - 1 > 0 THEN <<",">> ELSE <<>>)
                \o (IF input.type = "tuple[]"
                    THEN <<"(">>
                            \o ComponentTypes(input.components, Len(input.components))
                            \o <<")[]">>
                    ELSE IF input.type = "tuple"
                    THEN <<"(">>
                            \o ComponentTypes(input.components, Len(input.components))
                            \o <<")">>
                    ELSE <<input.type>>)

\* the subscripts event_signature evaluates all exist (no KeyError)
EventAbiReadable(event_abi) ==
    /\ {"inputs", "name"} \subseteq DOMAIN event_abi
    /\ \A i \in 1..Len(event_abi.inputs) :
          LET input == event_abi.inputs[i]
          IN  /\ "type" \in DOMAIN input
              /\ input.type \in {"tuple", "tuple[]"} =>
                    /\ "components" \in DOMAIN input
                    /\ \A j \in 1..Len(input.components) :
                          "type" \in DOMAIN input.components[j]

\* the text event_signature hashes
EventSignatureText(event_abi) ==
    <<event_abi.name, "(">>
        \o EventParams(event_abi.inputs, Len(event_abi.inputs))
        \o <<")">>

event_signature(event_abi) ==
    IF EventAbiReadable(event_abi)
    THEN Ok(Keccak(EventSignatureText(event_abi)))
    ELSE Raise("KeyError")

\* the first 8 hex characters of the digest
function_signature(function_name) == <<"first4", Keccak(function_name)>>

\* Function.to_full_name: the input types verbatim, comma joined
RECURSIVE JoinTypes(_, _)
JoinTypes(inputs, n) ==
    IF n = 0 THEN <<>>
    ELSE JoinTypes(inputs, n - 1)
            \o (IF n - 1 > 0 THEN <<",">> ELSE <<>>)
            \o <<inputs[n].type>>

to_full_name(name, abi) ==
    IF "inputs" \notin DOMAIN abi THEN Raise("AssertionError")
    ELSE IF \E i \in 1..Len(abi.inputs) : "type" \notin DOMAIN abi.inputs[i]
    THEN Raise("KeyError")
    ELSE Ok(<<name, "(">> \o JoinTypes(abi.inputs, Len(abi.inputs)) \o <<")">>)

\* Event(name, abi, contract) with __attrs_post_init__
EventNew(name, abi, contract) ==
    LET sig == event_signature(abi)
    IN  IF sig.ok
        THEN Ok([kind |-> "Event", name |-> name, abi |-> abi,
                 contract |-> contract, signature |-> sig.val])
        ELSE sig

\* Function(name, abi, contract) with __attrs_post_init__
FunctionNew(name, abi, contract) ==
    LET full == to_full_name(name, abi)
    IN  IF full.ok
        THEN Ok([kind |-> "Function", name |-> name, abi |-> abi,
                 contract |-> contract,
                 signature |-> function_signature(full.val)])
        ELSE full

(***************************************************************************)
(* Contract model.                                                         *)
(***************************************************************************)
EmptyDict == <<>>

\* dict.setdefault(key, value): an existing key keeps its value
DictSetFirst(d, key, value) ==
    [k \in DOMAIN d \cup {key} |-> IF k \in DOMAIN d THEN d[k] ELSE value]

\* d[key] = value on a dict
DictSet(d, key, value) ==
    [k \in DOMAIN d \cup {key} |-> IF k = key THEN value ELSE d[k]]

\* one iteration of the loop of Contract.__attrs_post_init__
ContractEntry(st, entry, contract) ==
    IF ~st.ok THEN st
    ELSE IF "type" \notin DOMAIN entry THEN Raise("AssertionError")
    ELSE IF entry.type = "event"
    THEN IF "name" \notin DOMAIN entry THEN Raise("AssertionError")
         ELSE LET e == EventNew(entry.name, entry, contract)
              IN  IF e.ok
                  THEN [st EXCEPT !.events = DictSet(@, entry.name, e.val)]
                  ELSE e
    ELSE IF entry.type = "function"
    THEN IF "name" \notin DOMAIN entry THEN Raise("AssertionError")
         ELSE LET f == FunctionNew(entry.name, entry, contract)
              IN  IF f.ok
                  THEN [st EXCEPT !.functions = DictSet(@, entry.name, f.val)]
                  ELSE f
    ELSE st

\* the loop of Contract.__attrs_post_init__ over the first n entries
RECURSIVE ContractLoop(_, _, _)
ContractLoop(abi, n, contract) ==
    IF n = 0 THEN [ok |-> TRUE, events |-> EmptyDict, functions |-> EmptyDict]
    ELSE ContractEntry(ContractLoop(abi, n - 1, contract), abi[n], contract)

\* abi_from_file_location: json.load(open(file))["abi"]; `file` is the
\* parsed JSON document, or "missing" when open() fails
abi_from_file_location(file) ==
    IF file = [missing |-> TRUE] THEN Raise("FileNotFoundError")
    ELSE IF "abi" \notin DOMAIN file THEN Raise("KeyError")
    ELSE Ok(file.abi)

\* Contract(name, address, file_location): converter, then post-init
ContractNew(name, address, file) ==
    LET abi == abi_from_file_location(file)
    IN  IF ~abi.ok THEN abi
        ELSE LET tables == ContractLoop(abi.val, Len(abi.val), name)
             IN  IF ~tables.ok THEN tables
                 ELSE Ok([kind |-> "Contract", name |-> name,
                          address |-> address, abi |-> abi.val,
                          events |-> tables.events,
                          functions |-> tables.functions])

\* the parts of the state a specification does not use stay at rest
Idle == [kind |-> "idle"]

AbiIdle == abiEntry = Idle /\ abiOut = Idle

CtrIdle == ctrFile = Idle /\ ctrOut = Idle

CfgIdle ==
    /\ env = <<>> /\ net = <<>> /\ pc = "idle" /\ idx = 0
    /\ kwargs = EmptyDict /\ returned = <<>>
    /\ contracts = NoValue /\ config = NoValue /\ error = "none"

DecIdle ==
    rawLog = Idle /\ decoded = Idle /\ decErr = "none" /\ derived = Idle

(***************************************************************************)
(* Specification SpecAbi: Event(...) / Function(...) applied to one ABI    *)
(* entry drawn from a bounded universe with tuples nested up to depth 2.   *)
(***************************************************************************)
PrimTypes == {"uint256", "address"}

TupleTypes == {"tuple", "tuple[]"}

TuplesOver(S) ==
    {[type |-> t, components |-> cs] :
        t \in TupleTypes, cs \in NonEmptySeqsUpTo(S, MaxComponents)}

Level0 == {[type |-> t] : t \in PrimTypes}

\* tuples of one primitive component
SmallTuples ==
    {[type |-> t, components |-> <<p>>] : t \in TupleTypes, p \in Level0}

\* tuples of primitives
Level1 == TuplesOver(Level0)

\* tuples with tuples among their components
Level2 == TuplesOver(Level0 \cup SmallTuples)

\* input lists of primitives and small tuples, and every single tuple
AbiInputs ==
    SeqsUpTo(Level0 \cup SmallTuples, MaxInputs)
    \cup {<<p>> : p \in Level1 \cup Level2}

AbiEntries ==
    {[type |-> k, name |-> "f", inputs |-> ins] :
        k \in {"event", "function"}, ins \in AbiInputs}
    \cup {[type |-> k, name |-> "f"] : k \in {"event", "function"}}
    \cup {[type |-> "event", name |-> "f", inputs |-> <<[type |-> "tuple"]>>]}

AbiInit ==
    /\ abiEntry \in AbiEntries /\ abiOut = NoValue
    /\ CtrIdle /\ CfgIdle /\ DecIdle

\* Event(entry["name"], entry, contract)
AbiEvent ==
    /\ abiOut = NoValue
    /\ abiEntry.type = "event"
    /\ abiOut' = EventNew(abiEntry.name, abiEntry, "Relay")
    /\ UNCHANGED <<abiEntry, ctrVars, cfgVars, decVars>>

\* Function(entry["name"], entry, contract)
AbiFunction ==
    /\ abiOut = NoValue
    /\ abiEntry.type = "function"
    /\ abiOut' = FunctionNew(abiEntry.name, abiEntry, "Relay")
    /\ UNCHANGED <<abiEntry, ctrVars, cfgVars, decVars>>

AbiNext == AbiEvent \/ AbiFunction

SpecAbi == AbiInit /\ [][AbiNext]_vars

\* The canonical type of a parameter as the chain defines it (§4.1 of the
\* specification): tuples expanded at every depth.
RECURSIVE CanonType(_), CanonList(_, _)
CanonType(p) ==
    IF p.type = "tuple"
    THEN <<"(">> \o CanonList(p.components, Len(p.components)) \o <<")">>
    ELSE IF p.type = "tuple[]"
    THEN <<"(">> \o CanonList(p.components, Len(p.components)) \o <<")[]">>
    ELSE <<p.type>>

CanonList(ps, n) ==
    IF n = 0 THEN <<>>
    ELSE CanonList(ps, n - 1)
            \o (IF n - 1 > 0 THEN <<",">> ELSE <<>>)
            \o CanonType(ps[n])

CanonText(name, inputs) ==
    <<name, "(">> \o CanonList(inputs, Len(inputs)) \o <<")">>

NoTupleWord(text) == "tuple" \notin Range(text) /\ "tuple[]" \notin Range(text)

\* C3: for every event entry the text hashed by event_signature is the name
\* followed by the recursively expanded parameter list, and the words
\* 'tuple' / 'tuple[]' never appear in it.
C3_EventTuplesExpandRecursively ==
    (abiOut # NoValue /\ abiOut.ok /\ abiOut.val.kind = "Event") =>
        LET text == abiOut.val.signature[2]
        IN  /\ text = CanonText(abiEntry.name, abiEntry.inputs)
            /\ NoTupleWord(text)

\* C4: for every function entry the full name hashed into the selector is
\* the text event_signature hashes for an event with the same name and
\* inputs, with tuple inputs expanded and never the words 'tuple'/'tuple[]'.
C4_FullNameIsCanonical ==
    (abiOut # NoValue /\ abiOut.ok /\ abiOut.val.kind = "Function") =>
        LET full == abiOut.val.signature[2][2]
        IN  /\ full = EventSignatureText(
                        [name |-> abiEntry.name, inputs |-> abiEntry.inputs])
            /\ NoTupleWord(full)

(***************************************************************************)
(* Specification SpecContract: Contract(name, address, file) applied to an *)
(* artifact file drawn from a bounded universe.                            *)
(***************************************************************************)
CtrNames == {"a", "b"}

CtrInputs == {<<>>, <<[type |-> "uint256"]>>}

\* well-formed event and function entries, a constructor (which has no
\* name), and entries lacking "type" or "name"
CtrEntries ==
    {[type |-> t, name |-> n, inputs |-> i] :
        t \in {"event", "function"}, n \in CtrNames, i \in CtrInputs}
    \cup {[type |-> "constructor", inputs |-> <<>>]}
    \cup {[type |-> t, inputs |-> <<>>] : t \in {"event", "function"}}
    \cup {[name |-> "a", inputs |-> <<>>]}

CtrFiles ==
    {[abi |-> a] : a \in SeqsUpTo(CtrEntries, MaxAbiLen)}
    \cup {[missing |-> TRUE], [contractName |-> "Relay"]}

CtrInit ==
    /\ ctrFile \in CtrFiles /\ ctrOut = NoValue
    /\ AbiIdle /\ CfgIdle /\ DecIdle

CtrConstruct ==
    /\ ctrOut = NoValue
    /\ ctrOut' = ContractNew("Relay", SampleChecksum, ctrFile)
    /\ UNCHANGED <<ctrFile, abiVars, cfgVars, decVars>>

CtrNext == CtrConstruct

SpecContract == CtrInit /\ [][CtrNext]_vars

\* indices of the entries of type `t`, and the last one named `n`
EntriesOfType(abi, t) ==
    {i \in 1..Len(abi) : "type" \in DOMAIN abi[i] /\ abi[i].type = t}

LastNamed(abi, t, n) ==
    CHOOSE i \in EntriesOfType(abi, t) :
        /\ abi[i].name = n
        /\ \A j \in EntriesOfType(abi, t) : abi[j].name = n => j <= i

TableMatches(table, abi, t) ==
    /\ DOMAIN table = {abi[i].name : i \in EntriesOfType(abi, t)}
    /\ \A n \in DOMAIN table :
          /\ table[n].name = n
          /\ table[n].abi = abi[LastNamed(abi, t, n)]
    /\ (Cardinality(DOMAIN table) = Cardinality(EntriesOfType(abi, t)))
          <=> (\A i, j \in EntriesOfType(abi, t) :
                  abi[i].name = abi[j].name => i = j)

\* C9: after construction the key sets of events / functions are the names
\* of the event / function entries, other entries contribute nothing, each
\* descriptor is built from the last entry of its type and name, the maps
\* are one-to-one with the entries exactly when names are unique per type,
\* and an earlier overload and its selector are absent.
C9_TablesKeepLastEntryPerName ==
    (ctrOut # NoValue /\ ctrOut.ok) =>
        LET abi == ctrOut.val.abi
            c == ctrOut.val
        IN  /\ abi = ctrFile.abi
            /\ TableMatches(c.events, abi, "event")
            /\ TableMatches(c.functions, abi, "function")
            /\ \A n \in DOMAIN c.events :
                  c.events[n] = EventNew(n, abi[LastNamed(abi, "event", n)], c.name).val
            /\ \A n \in DOMAIN c.functions :
                  c.functions[n] =
                      FunctionNew(n, abi[LastNamed(abi, "function", n)], c.name).val
            /\ \A i \in EntriesOfType(abi, "function") :
                  LET last == LastNamed(abi, "function", abi[i].name)
                  IN  abi[i].inputs # abi[last].inputs =>
                        \A n \in DOMAIN c.functions :
                            /\ c.functions[n].abi # abi[i]
                            /\ c.functions[n].signature #
                                 FunctionNew(abi[i].name, abi[i], c.name).val.signature

\* an overloaded function next to an entry that is neither event nor function
C9_Witness ==
    /\ ctrOut # NoValue /\ ctrOut.ok
    /\ \E i, j \in EntriesOfType(ctrFile.abi, "function") :
          /\ i < j
          /\ ctrFile.abi[i].name = ctrFile.abi[j].name
          /\ ctrFile.abi[i].inputs # ctrFile.abi[j].inputs
    /\ EntriesOfType(ctrFile.abi, "constructor") # {}

(***************************************************************************)
(* Registry resolver (Contracts.get_contracts) and get_config.             *)
(***************************************************************************)
\* the fields of the attrs class Contracts, in declaration order
AttrNames == <<"VoterRegistry", "FlareSystemsCalculator", "FlareSystemsManager",
               "Relay", "Submission", "FdcHub", "FastUpdater">>

\* calling a frozen attrs class with keyword arguments: every field without
\* a default must be supplied and no other keyword is accepted
AttrsNew(kind, required, kw) ==
    IF DOMAIN kw = required
    THEN Ok([kind |-> kind, fields |-> kw])
    ELSE Raise("TypeError")

\* the loop body of get_contracts with the failure of Contract(...) swallowed
ResolveOneSwallow(name, answer, file) ==
    IF ~answer.ok THEN answer
    ELSE LET address == to_checksum_address(answer.val)
         IN  IF ~address.ok THEN address
             ELSE LET c == ContractNew(name, address.val, file)
                  IN  IF c.ok THEN c ELSE Ok(NoValue)

\* the loop body of get_contracts for one name: the registry call, the
\* address conversion, the Contract construction; the first failure
\* propagates
ResolveOne(name, answer, file) ==
    IF ~answer.ok THEN answer
    ELSE LET address == to_checksum_address(answer.val)
         IN  IF ~address.ok THEN address
             ELSE ContractNew(name, address.val, file)

\* ChainId.all()
ChainIdAll == {16, 19, 114, 14}

\* get_epoch: the timing module selected by the chain id
get_epoch(chain_id) ==
    IF chain_id = 16 THEN Ok([kind |-> "Epoch", module |-> "coston"])
    ELSE IF chain_id = 19 THEN Ok([kind |-> "Epoch", module |-> "songbird"])
    ELSE IF chain_id = 114 THEN Ok([kind |-> "Epoch", module |-> "coston2"])
    ELSE IF chain_id = 14 THEN Ok([kind |-> "Epoch", module |-> "flare"])
    ELSE Raise("ValueError")

\* str.split(",") on a sequence of characters
RECURSIVE SplitFrom(_, _, _, _)
SplitFrom(s, i, cur, acc) ==
    IF i > Len(s) THEN Append(acc, cur)
    ELSE IF s[i] = "," THEN SplitFrom(s, i + 1, <<>>, Append(acc, cur))
    ELSE SplitFrom(s, i + 1, Append(cur, s[i]), acc)

SplitComma(s) == SplitFrom(s, 1, <<>>, <<>>)

EnvList(e, key) == IF key \in DOMAIN e THEN SplitComma(e[key]) ELSE <<>>

Min(a, b) == IF a <= b THEN a ELSE b

\* get_notification_config
get_notification_config(e) ==
    LET tokens == EnvList(e, "NOTIFICATION_TELEGRAM_BOT_TOKEN")
        chats == EnvList(e, "NOTIFICATION_TELEGRAM_CHAT_ID")
        telegram ==
            IF {"NOTIFICATION_TELEGRAM_BOT_TOKEN",
                "NOTIFICATION_TELEGRAM_CHAT_ID"} \subseteq DOMAIN e
            THEN [i \in 1..Min(Len(tokens), Len(chats)) |->
                    [bot_token |-> tokens[i], chat_id |-> chats[i]]]
            ELSE <<>>
    IN  [kind |-> "Notification",
         discord |-> EnvList(e, "NOTIFICATION_DISCORD_WEBHOOK"),
         slack |-> EnvList(e, "NOTIFICATION_SLACK_WEBHOOK"),
         telegram |-> telegram,
         generic |-> EnvList(e, "NOTIFICATION_GENERIC_WEBHOOK")]

\* the fields of the attrs class Configuration; none has a default
ConfigurationFields ==
    {"identity_address", "chain_id", "contracts", "rpc_url",
     "p_chain_rpc_url", "epoch", "notification", "fee_threshold"}

\* the keyword arguments get_config passes to Configuration(...)
ConfigurationKwargs(rpc_url, identity, chain_id, cs, epoch, notification) ==
    [rpc_url |-> rpc_url, identity_address |-> identity, chain_id |-> chain_id,
     contracts |-> cs, epoch |-> epoch, notification |-> notification]

(***************************************************************************)
(* Specification SpecConfig: one run of get_config, the registry answers   *)
(* and the artifact files chosen as the loop reaches them.                 *)
(***************************************************************************)
MergeDict(f, g) ==
    [k \in DOMAIN f \cup DOMAIN g |-> IF k \in DOMAIN f THEN f[k] ELSE g[k]]

BadAddress == <<"n", "o", "t", "h", "e", "x">>

NotificationEnv ==
    [NOTIFICATION_DISCORD_WEBHOOK |-> <<"u", ",", "v">>,
     NOTIFICATION_TELEGRAM_BOT_TOKEN |-> <<"s", ",", "t">>,
     NOTIFICATION_TELEGRAM_CHAT_ID |-> <<"c">>]

Envs ==
    {MergeDict(MergeDict(r, i), n) :
        r \in {EmptyDict, [RPC_URL |-> "http://node"]},
        i \in {EmptyDict, [IDENTITY_ADDRESS |-> SampleLower],
               [IDENTITY_ADDRESS |-> BadAddress]},
        n \in {EmptyDict, NotificationEnv}}

Nets == [connected : BOOLEAN, chain_id : ChainIdAll \cup {1}]

\* what registry.functions.getContractAddressByName(name).call() can do
RegistryAnswers ==
    {Ok(ZeroAddress), Ok(SampleLower), Raise("ContractLogicError")}

GoodFile ==
    [abi |-> <<[type |-> "event", name |-> "a",
                inputs |-> <<[type |-> "uint256"]>>],
               [type |-> "function", name |-> "b", inputs |-> <<>>]>>]

ArtifactFiles == {GoodFile, [missing |-> TRUE], [abi |-> <<[name |-> "a"]>>]}

CfgInit ==
    /\ env \in Envs /\ net \in Nets
    /\ pc = "rpc_url" /\ idx = 0 /\ kwargs = EmptyDict /\ returned = <<>>
    /\ contracts = NoValue /\ config = NoValue /\ error = "none"
    /\ AbiIdle /\ CtrIdle /\ DecIdle

CfgRaise(e) ==
    /\ pc' = "raised" /\ error' = e
    /\ idx' = 0 /\ kwargs' = EmptyDict
    /\ UNCHANGED <<env, net, returned, contracts, config, abiVars, ctrVars, decVars>>

CfgGoto(next) ==
    /\ pc' = next
    /\ UNCHANGED <<env, net, idx, kwargs, returned, contracts, config, error,
                   abiVars, ctrVars, decVars>>

\* rpc_url = os.environ.get("RPC_URL"); if rpc_url is None: raise
CfgRpcUrl ==
    /\ pc = "rpc_url"
    /\ IF "RPC_URL" \notin DOMAIN env THEN CfgRaise("ConfigError")
       ELSE CfgGoto("connect")

\* if not w.is_connected(): raise
CfgConnect ==
    /\ pc = "connect"
    /\ IF ~net.connected THEN CfgRaise("ConfigError") ELSE CfgGoto("chain_id")

\* if chain_id not in ChainId.all(): raise
CfgChainId ==
    /\ pc = "chain_id"
    /\ IF net.chain_id \notin ChainIdAll THEN CfgRaise("ConfigError")
       ELSE CfgGoto("identity")

\* if identity_address is None: raise; then the arguments of
\* Configuration(...) are evaluated in order, to_checksum_address first
CfgIdentity ==
    /\ pc = "identity"
    /\ IF "IDENTITY_ADDRESS" \notin DOMAIN env THEN CfgRaise("ConfigError")
       ELSE IF ~to_checksum_address(env["IDENTITY_ADDRESS"]).ok
       THEN CfgRaise(to_checksum_address(env["IDENTITY_ADDRESS"]).err)
       ELSE CfgGoto("get_contracts")

\* get_contracts up to the loop: attr_names, registry, kwargs = {}
GetContractsEnter ==
    /\ pc = "get_contracts"
    /\ pc' = "loop" /\ idx' = 0 /\ kwargs' = EmptyDict
    /\ UNCHANGED <<env, net, returned, contracts, config, error,
                   abiVars, ctrVars, decVars>>

\* one iteration of `for name in attr_names`
GetContractsResolve ==
    /\ pc = "loop" /\ idx < Len(AttrNames)
    /\ \E answer \in RegistryAnswers, file \in ArtifactFiles :
          LET name == AttrNames[idx + 1]
              r == ResolveOne(name, answer, file)
          IN  /\ returned' = IF answer.ok THEN Append(returned, answer.val)
                                          ELSE returned
              /\ IF r.ok
                 THEN /\ kwargs' = DictSet(kwargs, name, r.val)
                      /\ idx' = idx + 1
                      /\ UNCHANGED <<pc, error>>
                 ELSE /\ pc' = "raised" /\ error' = r.err
                      /\ idx' = 0 /\ kwargs' = EmptyDict
    /\ UNCHANGED <<env, net, contracts, config, abiVars, ctrVars, decVars>>

\* return cls(**kwargs)
GetContractsReturn ==
    /\ pc = "loop" /\ idx = Len(AttrNames)
    /\ LET r == AttrsNew("Contracts", Range(AttrNames), kwargs)
       IN  IF r.ok
           THEN /\ contracts' = r.val /\ pc' = "construct"
                /\ idx' = 0 /\ kwargs' = EmptyDict
                /\ UNCHANGED error
           ELSE /\ pc' = "raised" /\ error' = r.err
                /\ idx' = 0 /\ kwargs' = EmptyDict
                /\ UNCHANGED contracts
    /\ UNCHANGED <<env, net, returned, config, abiVars, ctrVars, decVars>>

\* epoch=get_epoch(chain_id), notification=get_notification_config(), then
\* the call Configuration(...) and `return config`
CfgConstruct ==
    /\ pc = "construct"
    /\ LET epoch == get_epoch(net.chain_id)
           kw == ConfigurationKwargs(
                    env["RPC_URL"],
                    to_checksum_address(env["IDENTITY_ADDRESS"]).val,
                    net.chain_id, contracts, epoch.val,
                    get_notification_config(env))
           r == IF epoch.ok THEN AttrsNew("Configuration", ConfigurationFields, kw)
                            ELSE epoch
       IN  IF r.ok
           THEN /\ config' = r.val /\ pc' = "done" /\ UNCHANGED error
           ELSE /\ pc' = "raised" /\ error' = r.err /\ UNCHANGED config
    /\ UNCHANGED <<env, net, idx, kwargs, returned, contracts,
                   abiVars, ctrVars, decVars>>

CfgNext ==
    \/ CfgRpcUrl
    \/ CfgConnect
    \/ CfgChainId
    \/ CfgIdentity
    \/ GetContractsEnter
    \/ GetContractsResolve
    \/ GetContractsReturn
    \/ CfgConstruct

SpecConfig == CfgInit /\ [][CfgNext]_vars

\* what the caller of get_contracts holds is a complete Contracts value:
\* one constructed Contract per name, built from that name's registry answer
CompleteContracts(cs) ==
    /\ cs.kind = "Contracts"
    /\ DOMAIN cs.fields = Range(AttrNames)
    /\ Len(returned) = Len(AttrNames)
    /\ \A i \in 1..Len(AttrNames) :
          LET c == cs.fields[AttrNames[i]]
          IN  /\ c.kind = "Contract"
              /\ c.name = AttrNames[i]
              /\ c.address = to_checksum_address(returned[i]).val

\* C1: registry resolution is all-or-nothing: a Contracts value reaches the
\* caller only with every name resolved and its Contract constructed (the
\* loop holds one constructed Contract per name resolved so far); when the
\* registry call or a Contract construction fails at any position, nothing
\* is returned and no built Contract stays reachable.
C1_ResolutionAllOrNothing ==
    /\ contracts # NoValue => CompleteContracts(contracts)
    /\ (pc = "raised" /\ error \notin {"ConfigError", "ValueError", "TypeError"})
          => (contracts = NoValue /\ kwargs = EmptyDict)
    /\ pc \in {"rpc_url", "connect", "chain_id", "identity", "get_contracts", "loop"}
          => contracts = NoValue
    /\ pc = "loop" =>
          /\ Len(returned) = idx
          /\ DOMAIN kwargs = {AttrNames[i] : i \in 1..idx}
          /\ \A i \in 1..idx :
                /\ kwargs[AttrNames[i]].kind = "Contract"
                /\ kwargs[AttrNames[i]].name = AttrNames[i]
                /\ kwargs[AttrNames[i]].address = to_checksum_address(returned[i]).val

\* a failure at the fifth name, after four Contract objects were built
C1_Witness ==
    /\ pc = "raised" /\ error = "FileNotFoundError"
    /\ Len(returned) = 5
    /\ contracts = NoValue

\* C2: when the registry answers the zero address for a name the resolution
\* fails (ContractNotFound): no Contracts value is returned after a zero
\* answer, and no returned Contract has the zero address.
C2_ZeroAddressFailsResolution ==
    contracts # NoValue =>
        /\ ZeroAddress \notin Range(returned)
        /\ \A n \in DOMAIN contracts.fields :
              contracts.fields[n].address # ZeroAddress

\* C10: on the happy path get_config returns a Configuration with every
\* required field supplied; it fails only with ConfigError on its checked
\* conditions; the registry is called only after the four checks passed.
C10_GetConfigHappyPath ==
    /\ (pc \in {"done", "raised"} /\ contracts # NoValue) =>
          /\ config # NoValue
          /\ error = "none"
          /\ DOMAIN config.fields = ConfigurationFields
    /\ (pc = "raised"
            /\ (\/ "RPC_URL" \notin DOMAIN env
                \/ ~net.connected
                \/ net.chain_id \notin ChainIdAll
                \/ "IDENTITY_ADDRESS" \notin DOMAIN env))
          => error = "ConfigError"
    /\ (pc = "loop" \/ returned # <<>>) =>
          /\ "RPC_URL" \in DOMAIN env
          /\ net.connected
          /\ net.chain_id \in ChainIdAll
          /\ "IDENTITY_ADDRESS" \in DOMAIN env

(***************************************************************************)
(* Typed event decoder and protocol message reconstructor.                 *)
(* A raw log's args are a dict; integers arrive as Python ints, byte       *)
(* strings as bytes, addresses as text.                                    *)
(***************************************************************************)
\* ProtocolMessageRelayed.from_dict(d, block_data)
PmrFromDict(d, block_data) ==
    IF "timestamp" \notin DOMAIN block_data THEN Raise("AssertionError")
    ELSE Ok([kind |-> "ProtocolMessageRelayed",
             protocol_id |-> int(d.protocolId),
             voting_round_id |-> int(d.votingRoundId),
             is_secure_random |-> d.isSecureRandom,
             merkle_root |-> BytesHex(d.merkleRoot),
             timestamp |-> block_data.timestamp])

\* the byte string ProtocolMessageRelayed.to_message hashes; the operands
\* of the concatenation are evaluated left to right
PmrMessage(self) ==
    LET p == IntToBytes(self.protocol_id, 1)
        v == IntToBytes(self.voting_round_id, 4)
        r == IntToBytes(BoolToInt(self.is_secure_random), 1)
        m == BytesFromHex(self.merkle_root)
    IN  IF ~p.ok THEN p
        ELSE IF ~v.ok THEN v
        ELSE IF ~r.ok THEN r
        ELSE IF ~m.ok THEN m
        ELSE Ok(p.val \o v.val \o r.val \o m.val)

\* ProtocolMessageRelayed.to_message: the EIP-191 digest of keccak(message)
PmrToMessage(self) ==
    LET message == PmrMessage(self)
    IN  IF ~message.ok THEN message
        ELSE Ok([kind |-> "eip191", message |-> message.val,
                 payload |-> Keccak(message.val)])

\* SigningPolicyInitialized.from_dict(d)
SpiFromDict(d) ==
    Ok([kind |-> "SigningPolicyInitialized",
        reward_epoch_id |-> int(d.rewardEpochId),
        start_voting_round_id |-> int(d.startVotingRoundId),
        threshold |-> int(d.threshold),
        seed |-> int(d.seed),
        voters |-> d.voters,
        weights |-> [i \in 1..Len(d.weights) |-> int(d.weights[i])],
        signing_policy_bytes |-> d.signingPolicyBytes,
        timestamp |-> int(d.timestamp)])

\* VoterRegistered.from_dict(d)
VrFromDict(d) ==
    Ok([kind |-> "VoterRegistered",
        reward_epoch_id |-> int(d.rewardEpochId),
        voter |-> d.voter,
        signing_policy_address |-> d.signingPolicyAddress,
        submit_address |-> d.submitAddress,
        submit_signatures_address |-> d.submitSignaturesAddress,
        public_key |-> BytesHex(d.publicKeyPart1) \o BytesHex(d.publicKeyPart2),
        registration_weight |-> int(d.registrationWeight)])

\* AttestationRequest.from_dict(data, voting_epoch)
ArFromDict(data, voting_epoch) ==
    Ok([kind |-> "AttestationRequest",
        log_index |-> data.logIndex,
        block |-> data.blockNumber,
        voting_epoch_id |-> voting_epoch,
        data |-> data.args.data])

\* AttestationRequest.attestation_type: AttestationType(self.data[0:32])
ArAttestationType(self) ==
    [kind |-> "AttestationType", representation |-> Slice(self.data, 0, 32)]

\* AttestationRequest.source_id: AttestationSource(self.data[32:64])
ArSourceId(self) ==
    [kind |-> "AttestationSource", representation |-> Slice(self.data, 32, 64)]

(***************************************************************************)
(* Specification SpecDecode: one raw log (or one directly constructed      *)
(* ProtocolMessageRelayed) decoded, then its accessors evaluated.          *)
(***************************************************************************)
BytesOfLen(n, k) == [i \in 1..n |-> (k * i) % 256]

MerkleRoots == {BytesOfLen(n, k) : n \in {0, 31, 32, 33}, k \in {0, 7}}

PmrLogs ==
    {[kind |-> "ProtocolMessageRelayed",
      args |-> [protocolId |-> p, votingRoundId |-> v,
                isSecureRandom |-> r, merkleRoot |-> m],
      block_data |-> b] :
        p \in {PyInt(-1), PyInt(0), PyInt(200), PyInt(255), PyInt(256)},
        v \in {PyInt(-1), PyInt(123456), PyMaxUnsigned(4), PyPow256(4)},
        r \in BOOLEAN, m \in MerkleRoots,
        b \in {[number |-> 9], [number |-> 9, timestamp |-> 1700000000]}}

CharsOfLen(n, c) == [i \in 1..n |-> c]

\* merkle_root strings a caller can pass to ProtocolMessageRelayed(...)
MerkleRootTexts ==
    {CharsOfLen(n, "0") : n \in {0, 62, 63, 64, 66}}
    \cup {CharsOfLen(64, "A"), CharsOfLen(64, "g"),
          <<" ">> \o CharsOfLen(64, "f"), <<"0", "x">> \o CharsOfLen(64, "0")}

PmrDirect ==
    {[kind |-> "constructor",
      fields |-> [kind |-> "ProtocolMessageRelayed", protocol_id |-> PyInt(200),
                  voting_round_id |-> PyInt(123456), is_secure_random |-> r,
                  merkle_root |-> m, timestamp |-> 0]] :
        r \in BOOLEAN, m \in MerkleRootTexts}

SpiLogs ==
    {[kind |-> "SigningPolicyInitialized",
      args |-> [rewardEpochId |-> e, startVotingRoundId |-> v, threshold |-> t,
                seed |-> PyPow256(31), voters |-> vs, weights |-> ws,
                signingPolicyBytes |-> <<0, 1>>, timestamp |-> ts]] :
        e \in {PyInt(-1), PyInt(7)}, v \in {PyInt(0), PyPow256(4)},
        t \in {PyInt(-1), PyInt(500)},
        vs \in {<<>>, <<SampleChecksum>>},
        ws \in {<<>>, <<PyInt(1), PyInt(-1)>>},
        ts \in {PyInt(-1), PyInt(1700000000)}}

VrLogs ==
    {[kind |-> "VoterRegistered",
      args |-> [rewardEpochId |-> PyInt(7), voter |-> a,
                signingPolicyAddress |-> b, submitAddress |-> c,
                submitSignaturesAddress |-> e,
                publicKeyPart1 |-> k1, publicKeyPart2 |-> k2,
                registrationWeight |-> w]] :
        a \in SampleAddresses \cup {ZeroAddress},
        b \in {SampleLower, SampleChecksum},
        c \in {SampleUpper, SampleChecksum},
        e \in {SampleMixed, SampleChecksum},
        k1 \in {<<>>, <<1, 171>>, BytesOfLen(32, 3)},
        k2 \in {<<255>>, <<0, 16>>},
        w \in {PyInt(0), PyInt(65536)}}

ArLogs ==
    {[kind |-> "AttestationRequest", logIndex |-> li, blockNumber |-> 100,
      voting_epoch |-> [kind |-> "VotingEpoch", id |-> 42],
      args |-> [data |-> BytesOfLen(n, k), fee |-> 1]] :
        li \in {0, 3}, n \in {0, 31, 32, 33, 63, 64, 65, 96}, k \in {0, 5}}

RawLogs == PmrLogs \cup PmrDirect \cup SpiLogs \cup VrLogs \cup ArLogs

DecInit ==
    /\ rawLog \in RawLogs /\ decoded = NoValue /\ decErr = "none"
    /\ derived = NoValue
    /\ AbiIdle /\ CtrIdle /\ CfgIdle

DecReturn(r) ==
    /\ IF r.ok THEN decoded' = r.val /\ UNCHANGED decErr
               ELSE decErr' = r.err /\ UNCHANGED decoded
    /\ UNCHANGED <<rawLog, derived, abiVars, ctrVars, cfgVars>>

Undecoded == decoded = NoValue /\ decErr = "none"

DecodeProtocolMessageRelayed ==
    /\ Undecoded /\ rawLog.kind = "ProtocolMessageRelayed"
    /\ DecReturn(PmrFromDict(rawLog.args, rawLog.block_data))

\* ProtocolMessageRelayed(protocol_id=..., ...) called directly
NewProtocolMessageRelayed ==
    /\ Undecoded /\ rawLog.kind = "constructor"
    /\ DecReturn(Ok(rawLog.fields))

DecodeSigningPolicyInitialized ==
    /\ Undecoded /\ rawLog.kind = "SigningPolicyInitialized"
    /\ DecReturn(SpiFromDict(rawLog.args))

DecodeVoterRegistered ==
    /\ Undecoded /\ rawLog.kind = "VoterRegistered"
    /\ DecReturn(VrFromDict(rawLog.args))

DecodeAttestationRequest ==
    /\ Undecoded /\ rawLog.kind = "AttestationRequest"
    /\ DecReturn(ArFromDict(rawLog, rawLog.voting_epoch))

DecDerive(r) ==
    /\ IF r.ok THEN derived' = r.val /\ UNCHANGED decErr
               ELSE decErr' = r.err /\ UNCHANGED derived
    /\ UNCHANGED <<rawLog, decoded, abiVars, ctrVars, cfgVars>>

Underived == decoded # NoValue /\ decErr = "none" /\ derived = NoValue

CallToMessage ==
    /\ Underived /\ decoded.kind = "ProtocolMessageRelayed"
    /\ DecDerive(PmrToMessage(decoded))

ReadAttestationType ==
    /\ Underived /\ decoded.kind = "AttestationRequest"
    /\ DecDerive(Ok(ArAttestationType(decoded)))

ReadSourceId ==
    /\ Underived /\ decoded.kind = "AttestationRequest"
    /\ DecDerive(Ok(ArSourceId(decoded)))

DecNext ==
    \/ DecodeProtocolMessageRelayed
    \/ NewProtocolMessageRelayed
    \/ DecodeSigningPolicyInitialized
    \/ DecodeVoterRegistered
    \/ DecodeAttestationRequest
    \/ CallToMessage
    \/ ReadAttestationType
    \/ ReadSourceId

SpecDecode == DecInit /\ [][DecNext]_vars

\* C5: decoding an AttestationRequest whose data is shorter than 64 bytes
\* fails (TruncatedPayload): from_dict returns no value for it, so the
\* accessors attestation_type and source_id never see a slice shorter than
\* 32 bytes.
C5_TruncatedPayloadRejected ==
    /\ (rawLog.kind = "AttestationRequest" /\ Len(rawLog.args.data) < 64) =>
          decoded = NoValue
    /\ (derived # NoValue
            /\ derived.kind \in {"AttestationType", "AttestationSource"}) =>
          Len(derived.representation) = 32

IsMerkleRoot32(text) == BytesFromHex(text).ok /\ Len(BytesFromHex(text).val) = 32

\* C6: to_message returns a digest only for a 38-byte preimage laid out as
\* protocolId (1) || votingRoundId (4) || isSecureRandom (1) || root (32),
\* and fails with InvalidMerkleRoot for every merkle_root that is not valid
\* hex of exactly 32 bytes.
C6_ToMessageNeedsRoot32 ==
    /\ (derived # NoValue /\ derived.kind = "eip191") =>
          /\ Len(derived.message) = 38
          /\ SubSeq(derived.message, 1, 1) = IntToBytes(decoded.protocol_id, 1).val
          /\ SubSeq(derived.message, 2, 5) = IntToBytes(decoded.voting_round_id, 4).val
          /\ derived.message[6] = (IF decoded.is_secure_random THEN 1 ELSE 0)
          /\ SubSeq(derived.message, 7, 38) = BytesFromHex(decoded.merkle_root).val
    /\ (decoded # NoValue /\ decoded.kind = "ProtocolMessageRelayed"
            /\ ~IsMerkleRoot32(decoded.merkle_root)
            /\ (derived # NoValue \/ decErr # "none")) =>
          (derived = NoValue /\ decErr = "InvalidMerkleRoot")

NonNegative(x) == ~x.neg

\* C7: every integer field is range-checked at decode time: no returned
\* ProtocolMessageRelayed holds a protocolId outside 0..255 or a
\* votingRoundId outside 0..2^32-1, no returned value holds a negative
\* unsigned field, and to_message never is where an overflow is first seen.
C7_IntegersRangeCheckedAtDecode ==
    /\ (rawLog.kind = "ProtocolMessageRelayed" /\ decoded # NoValue) =>
          /\ FitsUnsigned(decoded.protocol_id, 1)
          /\ FitsUnsigned(decoded.voting_round_id, 4)
    /\ (rawLog.kind = "SigningPolicyInitialized" /\ decoded # NoValue) =>
          /\ NonNegative(decoded.reward_epoch_id)
          /\ NonNegative(decoded.start_voting_round_id)
          /\ NonNegative(decoded.threshold)
          /\ NonNegative(decoded.timestamp)
          /\ \A i \in 1..Len(decoded.weights) : NonNegative(decoded.weights[i])
    /\ (rawLog.kind = "ProtocolMessageRelayed") => decErr # "OverflowError"

\* C8: a decoded VoterRegistered has public_key = hex(publicKeyPart1)
\* followed by hex(publicKeyPart2) and its four address fields in
\* checksummed form whatever the casing of the input.
C8_VoterRegisteredNormalized ==
    (decoded # NoValue /\ decoded.kind = "VoterRegistered") =>
        LET d == rawLog.args
        IN  /\ decoded.public_key =
                  BytesHex(d.publicKeyPart1) \o BytesHex(d.publicKeyPart2)
            /\ decoded.voter = to_checksum_address(d.voter).val
            /\ decoded.signing_policy_address =
                  to_checksum_address(d.signingPolicyAddress).val
            /\ decoded.submit_address = to_checksum_address(d.submitAddress).val
            /\ decoded.submit_signatures_address =
                  to_checksum_address(d.submitSignaturesAddress).val

(***************************************************************************)
(* The whole core: any one of the four parts at work.                      *)
(***************************************************************************)
Init == AbiInit \/ CtrInit \/ CfgInit \/ DecInit

Next == AbiNext \/ CtrNext \/ CfgNext \/ DecNext

Spec == Init /\ [][Next]_vars

====
